---------------------------- MODULE Spec2Model ----------------------------
(***************************************************************************)
(* ArXiv Insight: the top-level controller (App.tsx), the document viewer  *)
(* and its pages (components/PaperViewer.tsx), the generation service      *)
(* (services/geminiService.ts) and the result panel (InsightPanel).        *)
(*                                                                         *)
(* One step of the model is one task of the browser's event loop: a DOM    *)
(* event handler together with the React state updates and effects it      *)
(* flushes, or the continuation of one settled promise.                    *)
(*                                                                         *)
(* A value of type `T | null` is modelled as a sequence of length <= 1:    *)
(* <<>> is null and <<v>> is the value v.  Page numbers start at 1, so a   *)
(* null page number (and a null File) is modelled as 0.                    *)
(***************************************************************************)
EXTENDS Integers, Sequences, FiniteSets, TLC

(***************************************************************************)
(* Bounds of the model.                                                    *)
(***************************************************************************)
\* handleAction invocations (with a committed selection) in one session
MaxActions == 2
\* readings of the millisecond clock: Date.now() is in 0..MaxClock
MaxClock == 1

(***************************************************************************)
(* Inputs.                                                                 *)
(***************************************************************************)
\* the PDF files the user can choose in the upload input, and the number of
\* pages of each: file 1 has two pages, file 2 has one
Files == {1, 2}
NumPages == <<2, 1>>
\* page numbers a PDFPage component can have
Pages == {1, 2}
\* canvas coordinates of the pointer events
Points == {[x |-> 0, y |-> 0], [x |-> 12, y |-> 12]}
\* the artifact types of the action menu that are modelled
\* (InsightType.EXPLAIN: text flow, InsightType.INFOGRAPHIC: image flow)
ActionTypes == {"Explain", "Infographic"}

Null == <<>>
NoPage == 0
NoFile == 0

VARIABLES
    \* App.tsx
    file,               \* File | null: 0, or the chosen file
    insights,           \* InsightResult[]
    currentSelection,   \* SelectionData | null
    apiKeyVerified,     \* boolean
    \* PaperViewer
    pdfDoc,             \* the parsed document | null
    scale,              \* zoom scale, in tenths (1.2 is 12)
    activeSelectionPage,\* number | null
    \* PDFPage, one per mounted page
    selectionBox,       \* page -> BoundingBox | null
    isSelecting,        \* page -> boolean
    startPos,           \* page -> {x, y} | null
    \* the environment
    now,                \* the reading of Date.now()
    requests,           \* generateInsight calls awaited by handleAction
    loads,              \* files being read and parsed by loadPdf
    keyCheck,           \* hasSelectedApiKey() is awaited by checkApiKey
    keySelect,          \* openSelectKey() is awaited by handleApiKeySelection
    \* bookkeeping
    invocations         \* handleAction calls that passed the guard of line 93

appVars == <<file, insights, currentSelection, apiKeyVerified>>
viewerVars == <<pdfDoc, scale, activeSelectionPage>>
pageVars == <<selectionBox, isSelecting, startPos>>
envVars == <<now, requests, loads, keyCheck, keySelect>>
countVars == <<invocations>>
vars == <<appVars, viewerVars, pageVars, envVars, countVars>>


(***************************************************************************)
(* Values.                                                                 *)
(***************************************************************************)
\* PaperViewer's initial scale, useState(1.2)
InitialScale == 12
\* the bounds of the zoom buttons, Math.max(0.5, ...) and Math.min(3.0, ...)
MinScale == 5
MaxScale == 30
\* handleMouseUp's threshold for a tiny click
MinSelectionSize == 10

Abs(n) == IF n < 0 THEN -n ELSE n
Max(a, b) == IF a > b THEN a ELSE b
Min(a, b) == IF a < b THEN a ELSE b
Range(s) == {s[k] : k \in DOMAIN s}

\* the pages PaperViewer renders: Array.from({length: pdfDoc.numPages})
MountedPages(doc) == IF doc = Null THEN {} ELSE 1..doc[1].numPages

\* the state of a PDFPage component when it mounts
NoBoxes == [p \in Pages |-> Null]
NotSelecting == [p \in Pages |-> FALSE]

\* canvas.toDataURL('image/png') of the cropped region: the data URL prefix
\* and the pixels of the region, which are those of the page as rendered
ToDataURL(doc, page, box, s) ==
    <<"data:image/png;base64,",
      [file |-> doc[1].file, page |-> page, rect |-> box, scale |-> s]>>

\* imageBase64.replace(/^data:image\/(png|jpeg|jpg);base64,/, '')
CleanBase64(imageBase64) ==
    IF imageBase64[1] \in {"data:image/png;base64,", "data:image/jpeg;base64,",
                           "data:image/jpg;base64,"}
    THEN <<"", imageBase64[2]>>
    ELSE imageBase64

\* the entry handleAction creates
NewInsight(type, t, n) ==
    [id |-> ToString(t), type |-> type, content |-> "", isLoading |-> TRUE,
     timestamp |-> t, inv |-> n]

\* (mutant) a catch branch that stores no message
NoFailedContent == ""

\* the content of handleAction's catch branch
FailedContent == "Error processing request."

\* prev.map(i => i.id === id ? {...i, content, isLoading: false} : i)
SettleInsight(prev, id, content) ==
    [k \in DOMAIN prev |->
        IF prev[k].id = id
        THEN [prev[k] EXCEPT !.content = content, !.isLoading = FALSE]
        ELSE prev[k]]

\* (mutant) a try branch that moves the completed entry to the end of the list
ResolveInsightToEnd(prev, id, result) ==
    SelectSeq(prev, LAMBDA i : i.id # id)
        \o SettleInsight(SelectSeq(prev, LAMBDA i : i.id = id), id, result)

\* the updater of handleAction's try branch
ResolveInsight(prev, id, result) == SettleInsight(prev, id, result)

\* (mutant) a catch branch that swallows the error and updates nothing
RejectInsightIgnored(prev, id) == prev

\* the updater of handleAction's catch branch
RejectInsight(prev, id) == SettleInsight(prev, id, FailedContent)

\* (mutant) the updater `(prev) => [newInsight, ...prev]`
PrependInsight(prev, newInsight) == <<newInsight>> \o prev

\* the updater `(prev) => [...prev, newInsight]`
AppendInsight(prev, newInsight) == Append(prev, newInsight)

\* prev.filter(i => i.id !== id)
FilterOut(prev, id) == SelectSeq(prev, LAMBDA i : i.id # id)

\* insights.slice().reverse(): the order InsightPanel shows
Reversed(s) == [k \in 1..Len(s) |-> s[Len(s) + 1 - k]]

\* What a call generateInsight(imageBase64, type) can settle to.  The reply
\* of the external service to the n-th call is a value of its own.
generateInsight(imageBase64, type, n) ==
    LET caught == "Error generating insight: request failed"
    IN  IF type = "Infographic"
        THEN {[settled |-> "resolved",
               value |-> "data:image/png;base64,image " \o ToString(n)],
              [settled |-> "resolved", value |-> "No image generated."],
              [settled |-> "resolved", value |-> caught],
              [settled |-> "rejected", value |-> "GoogleGenAI"]}
        ELSE {[settled |-> "resolved", value |-> "text " \o ToString(n)],
              [settled |-> "resolved", value |-> "No response generated."],
              [settled |-> "resolved", value |-> caught],
              [settled |-> "rejected", value |-> "GoogleGenAI"]}

(***************************************************************************)
(* The initial state: App has mounted and its first effect has run, in a   *)
(* window without aistudio, where checkApiKey opens the gate at once.      *)
(***************************************************************************)
Init ==
    /\ file = NoFile
    /\ insights = <<>>
    /\ currentSelection = Null
    /\ apiKeyVerified = TRUE
    /\ keyCheck = FALSE
    /\ keySelect = 0
    /\ pdfDoc = Null
    /\ scale = InitialScale
    /\ activeSelectionPage = NoPage
    /\ selectionBox = NoBoxes
    /\ isSelecting = NotSelecting
    /\ startPos = NoBoxes
    /\ now = 0
    /\ requests = {}
    /\ loads = {}
    /\ invocations = 0

(***************************************************************************)
(* The credential gate (App.tsx).  While apiKeyVerified is false App       *)
(* renders the gate only: PaperViewer and its pages are unmounted and      *)
(* lose their state, and what their pending loads set later is dropped.    *)
(* When the gate opens PaperViewer mounts afresh and its effect loads the  *)
(* current file.                                                           *)
(***************************************************************************)
setApiKeyVerified(v) ==
    /\ apiKeyVerified' = v
    /\ IF v = apiKeyVerified
       THEN UNCHANGED <<viewerVars, pageVars, loads>>
       ELSE /\ pdfDoc' = Null
            /\ scale' = InitialScale
            /\ activeSelectionPage' = NoPage
            /\ selectionBox' = NoBoxes
            /\ isSelecting' = NotSelecting
            /\ startPos' = NoBoxes
            /\ loads' = IF v /\ file # NoFile THEN {file} ELSE {}

\* checkApiKey, after `await window.aistudio.hasSelectedApiKey()`
checkApiKey(hasKey) ==
    /\ keyCheck
    /\ keyCheck' = FALSE
    /\ setApiKeyVerified(hasKey)
    /\ UNCHANGED <<file, insights, currentSelection, now, requests, keySelect,
                   countVars>>

\* handleApiKeySelection, up to `await window.aistudio.openSelectKey()`
handleApiKeySelection ==
    /\ ~apiKeyVerified
    /\ keySelect = 0
    /\ keySelect' = 1
    /\ UNCHANGED <<appVars, viewerVars, pageVars, now, requests, loads,
                   keyCheck, countVars>>

\* handleApiKeySelection, after the await
openSelectKeyResolved ==
    /\ keySelect > 0
    /\ keySelect' = keySelect - 1
    /\ setApiKeyVerified(TRUE)
    /\ UNCHANGED <<file, insights, currentSelection, now, requests, keyCheck,
                   countVars>>

(***************************************************************************)
(* Documents (App.handleFileUpload, PaperViewer's loadPdf effect).         *)
(***************************************************************************)
\* (mutant) handleFileUpload without `setInsights([])`
handleFileUploadKeepingInsights(f) ==
    /\ apiKeyVerified
    /\ file' = f
    /\ currentSelection' = Null
    /\ loads' = loads \cup {f}
    /\ UNCHANGED <<insights, apiKeyVerified, viewerVars, pageVars, now,
                   requests, keyCheck, keySelect, countVars>>

\* (mutant) an upload input that is rendered while the gate is closed
handleFileUploadUngated(f) ==
    /\ file' = f
    /\ insights' = <<>>
    /\ currentSelection' = Null
    /\ loads' = loads \cup {f}
    /\ UNCHANGED <<apiKeyVerified, viewerVars, pageVars, now, requests,
                   keyCheck, keySelect, countVars>>

\* The change event of the upload input with the file f chosen; the effect
\* of PaperViewer on [file] then starts loadPdf.
handleFileUpload(f) ==
    /\ apiKeyVerified
    /\ file' = f
    /\ insights' = <<>>
    /\ currentSelection' = Null
    /\ loads' = loads \cup {f}
    /\ UNCHANGED <<apiKeyVerified, viewerVars, pageVars, now, requests,
                   keyCheck, keySelect, countVars>>

\* fileReader.onload, after `await loadingTask.promise`: setPdfDoc(doc).
\* A page that the new document has too stays mounted (key={pageNum}) and
\* keeps its state; a page it has not unmounts.
loadPdfResolved(f) ==
    /\ f \in loads
    /\ loads' = loads \ {f}
    /\ pdfDoc' = <<[file |-> f, numPages |-> NumPages[f]]>>
    /\ selectionBox' =
          [p \in Pages |-> IF p <= NumPages[f] THEN selectionBox[p] ELSE Null]
    /\ isSelecting' =
          [p \in Pages |-> IF p <= NumPages[f] THEN isSelecting[p] ELSE FALSE]
    /\ startPos' =
          [p \in Pages |-> IF p <= NumPages[f] THEN startPos[p] ELSE Null]
    /\ UNCHANGED <<appVars, scale, activeSelectionPage, now, requests,
                   keyCheck, keySelect, countVars>>

\* the catch of fileReader.onload: console.error only
loadPdfRejected(f) ==
    /\ f \in loads
    /\ loads' = loads \ {f}
    /\ UNCHANGED <<appVars, viewerVars, pageVars, now, requests, keyCheck,
                   keySelect, countVars>>

\* (mutant) a Zoom Out button without Math.max
zoomOutUnclamped ==
    /\ apiKeyVerified
    /\ scale' = scale - 1
    /\ UNCHANGED <<appVars, pdfDoc, activeSelectionPage, pageVars, envVars,
                   countVars>>

\* the Zoom Out button: setScale(s => Math.max(0.5, s - 0.1))
zoomOut ==
    /\ apiKeyVerified
    /\ scale' = Max(MinScale, scale - 1)
    /\ UNCHANGED <<appVars, pdfDoc, activeSelectionPage, pageVars, envVars,
                   countVars>>

\* (mutant) a Zoom In button that captures the committed selection again from
\* the canvas at the new scale
zoomInRecapturing ==
    /\ apiKeyVerified
    /\ scale' = Min(MaxScale, scale + 1)
    /\ currentSelection' =
          IF currentSelection = Null
          THEN Null
          ELSE <<[currentSelection[1] EXCEPT
                     !.imageBase64 =
                         <<currentSelection[1].imageBase64[1],
                           [currentSelection[1].imageBase64[2] EXCEPT
                               !.scale = Min(MaxScale, scale + 1)]>>]>>
    /\ UNCHANGED <<file, insights, apiKeyVerified, pdfDoc,
                   activeSelectionPage, pageVars, envVars, countVars>>

\* the Zoom In button: setScale(s => Math.min(3.0, s + 0.1))
zoomIn ==
    /\ apiKeyVerified
    /\ scale' = Min(MaxScale, scale + 1)
    /\ UNCHANGED <<appVars, pdfDoc, activeSelectionPage, pageVars, envVars,
                   countVars>>

(***************************************************************************)
(* Selection on a page (PDFPage).                                          *)
(***************************************************************************)
\* (mutant) a box that keeps the anchor as its corner and the signed deltas
\* as its size
DragBoxFromAnchor(anchor, pt) ==
    [x |-> anchor.x, y |-> anchor.y,
     width |-> pt.x - anchor.x, height |-> pt.y - anchor.y]

\* the box handleMouseMove computes from the anchor and the current point
DragBox(anchor, pt) ==
    LET width == pt.x - anchor.x
        height == pt.y - anchor.y
    IN  [x |-> IF width > 0 THEN anchor.x ELSE pt.x,
         y |-> IF height > 0 THEN anchor.y ELSE pt.y,
         width |-> Abs(width),
         height |-> Abs(height)]

\* (mutant) `selectionBox.width < 10 && selectionBox.height < 10`
IsTinyClickBoth(box) ==
    box.width < MinSelectionSize /\ box.height < MinSelectionSize

\* `selectionBox.width < 10 || selectionBox.height < 10`
IsTinyClick(box) ==
    box.width < MinSelectionSize \/ box.height < MinSelectionSize

\* (mutant) a PDFPage without the effect on [isSelectionActive]
ClearNone(boxes, old, new) == boxes

\* The effect of PDFPage on [isSelectionActive], for the render in which the
\* active page changes from `old` to `new`: the page whose isSelectionActive
\* became false clears its box.
ClearInactive(boxes, old, new) ==
    [q \in Pages |-> IF q = old /\ q # new THEN Null ELSE boxes[q]]

handleMouseDown(p, pt) ==
    /\ apiKeyVerified
    /\ p \in MountedPages(pdfDoc)
    /\ activeSelectionPage' = p
    /\ isSelecting' = [isSelecting EXCEPT ![p] = TRUE]
    /\ startPos' = [startPos EXCEPT ![p] = <<pt>>]
    /\ selectionBox' =
          ClearInactive(
              [selectionBox EXCEPT
                  ![p] = <<[x |-> pt.x, y |-> pt.y, width |-> 0, height |-> 0]>>],
              activeSelectionPage, p)
    /\ UNCHANGED <<appVars, pdfDoc, scale, envVars, countVars>>

handleMouseMove(p, pt) ==
    /\ apiKeyVerified
    /\ p \in MountedPages(pdfDoc)
    /\ IF ~isSelecting[p] \/ startPos[p] = Null
       THEN UNCHANGED selectionBox
       ELSE selectionBox' =
                [selectionBox EXCEPT ![p] = <<DragBox(startPos[p][1], pt)>>]
    /\ UNCHANGED <<appVars, viewerVars, isSelecting, startPos, envVars,
                   countVars>>

\* App.handleSelectionComplete
handleSelectionComplete(data) == currentSelection' = <<data>>

\* (mutant) handleMouseUp without the `!isSelecting` test of its first line
handleMouseUpUnguarded(p) ==
    /\ apiKeyVerified
    /\ p \in MountedPages(pdfDoc)
    /\ isSelecting' = [isSelecting EXCEPT ![p] = FALSE]
    /\ IF selectionBox[p] = Null
       THEN UNCHANGED <<startPos, selectionBox, currentSelection>>
       ELSE /\ startPos' = [startPos EXCEPT ![p] = Null]
            /\ IF IsTinyClick(selectionBox[p][1])
               THEN /\ selectionBox' = [selectionBox EXCEPT ![p] = Null]
                    /\ UNCHANGED currentSelection
               ELSE /\ UNCHANGED selectionBox
                    /\ handleSelectionComplete(
                           [pageNumber |-> p,
                            rect |-> selectionBox[p][1],
                            imageBase64 |->
                                ToDataURL(pdfDoc, p, selectionBox[p][1], scale)])
    /\ UNCHANGED <<file, insights, apiKeyVerified, viewerVars, envVars,
                   countVars>>

\* (mutant) a commit that also reaches the requests in flight, as if they
\* read the committed selection when the service sends the image
handleMouseUpRetargeting(p) ==
    /\ apiKeyVerified
    /\ p \in MountedPages(pdfDoc)
    /\ isSelecting' = [isSelecting EXCEPT ![p] = FALSE]
    /\ IF ~isSelecting[p] \/ selectionBox[p] = Null
       THEN UNCHANGED <<startPos, selectionBox, currentSelection, requests>>
       ELSE /\ startPos' = [startPos EXCEPT ![p] = Null]
            /\ IF IsTinyClick(selectionBox[p][1])
               THEN /\ selectionBox' = [selectionBox EXCEPT ![p] = Null]
                    /\ UNCHANGED <<currentSelection, requests>>
               ELSE /\ UNCHANGED selectionBox
                    /\ handleSelectionComplete(
                           [pageNumber |-> p,
                            rect |-> selectionBox[p][1],
                            imageBase64 |->
                                ToDataURL(pdfDoc, p, selectionBox[p][1], scale)])
                    /\ requests' =
                          {[r EXCEPT !.imageBase64 =
                                ToDataURL(pdfDoc, p, selectionBox[p][1], scale)] :
                              r \in requests}
    /\ UNCHANGED <<file, insights, apiKeyVerified, viewerVars, now, loads,
                   keyCheck, keySelect, countVars>>

\* onMouseUp and onMouseLeave
handleMouseUp(p) ==
    /\ apiKeyVerified
    /\ p \in MountedPages(pdfDoc)
    /\ isSelecting' = [isSelecting EXCEPT ![p] = FALSE]
    /\ IF ~isSelecting[p] \/ selectionBox[p] = Null
       THEN UNCHANGED <<startPos, selectionBox, currentSelection>>
       ELSE /\ startPos' = [startPos EXCEPT ![p] = Null]
            /\ IF IsTinyClick(selectionBox[p][1])
               THEN /\ selectionBox' = [selectionBox EXCEPT ![p] = Null]
                    /\ UNCHANGED currentSelection
               ELSE /\ UNCHANGED selectionBox
                    /\ handleSelectionComplete(
                           [pageNumber |-> p,
                            rect |-> selectionBox[p][1],
                            imageBase64 |->
                                ToDataURL(pdfDoc, p, selectionBox[p][1], scale)])
    /\ UNCHANGED <<file, insights, apiKeyVerified, viewerVars, envVars,
                   countVars>>

\* the Cancel button of the action menu: setCurrentSelection(null)
cancelSelection ==
    /\ apiKeyVerified
    /\ currentSelection # Null
    /\ currentSelection' = Null
    /\ UNCHANGED <<file, insights, apiKeyVerified, viewerVars, pageVars,
                   envVars, countVars>>

(***************************************************************************)
(* Insight requests (App.handleAction, App.removeInsight).                 *)
(***************************************************************************)
\* (mutant) handleAction that closes the menu: setCurrentSelection(null)
handleActionClearingSelection(type) ==
    /\ apiKeyVerified
    /\ IF currentSelection = Null
       THEN UNCHANGED <<insights, requests, invocations, currentSelection>>
       ELSE /\ invocations' = invocations + 1
            /\ insights' =
                  AppendInsight(insights,
                                NewInsight(type, now, invocations + 1))
            /\ requests' = requests \cup
                  {[inv |-> invocations + 1,
                    id |-> NewInsight(type, now, invocations + 1).id,
                    type |-> type,
                    imageBase64 |-> currentSelection[1].imageBase64]}
            /\ currentSelection' = Null
    /\ UNCHANGED <<file, apiKeyVerified, viewerVars, pageVars, now, loads,
                   keyCheck, keySelect>>

\* (mutant) handleAction without `if (!currentSelection) return`: with no
\* selection the entry is added, reading currentSelection.imageBase64 throws
\* inside the try and the catch branch marks the entry
handleActionUnguarded(type) ==
    /\ apiKeyVerified
    /\ IF currentSelection = Null
       THEN /\ insights' =
                  RejectInsight(
                      AppendInsight(insights, NewInsight(type, now, 0)),
                      NewInsight(type, now, 0).id)
            /\ UNCHANGED <<requests, invocations>>
       ELSE /\ invocations' = invocations + 1
            /\ insights' =
                  AppendInsight(insights,
                                NewInsight(type, now, invocations + 1))
            /\ requests' = requests \cup
                  {[inv |-> invocations + 1,
                    id |-> NewInsight(type, now, invocations + 1).id,
                    type |-> type,
                    imageBase64 |-> currentSelection[1].imageBase64]}
    /\ UNCHANGED <<file, currentSelection, apiKeyVerified, viewerVars,
                   pageVars, now, loads, keyCheck, keySelect>>

\* handleAction up to its await: the guard, the new entry, the call
handleAction(type) ==
    /\ apiKeyVerified
    /\ IF currentSelection = Null
       THEN UNCHANGED <<insights, requests, invocations>>
       ELSE /\ invocations' = invocations + 1
            /\ insights' =
                  AppendInsight(insights,
                                NewInsight(type, now, invocations + 1))
            /\ requests' = requests \cup
                  {[inv |-> invocations + 1,
                    id |-> NewInsight(type, now, invocations + 1).id,
                    type |-> type,
                    imageBase64 |-> currentSelection[1].imageBase64]}
    /\ UNCHANGED <<file, currentSelection, apiKeyVerified, viewerVars,
                   pageVars, now, loads, keyCheck, keySelect>>

\* handleAction after its await: the try branch on a resolved call, the
\* catch branch on a rejected one
requestSettled(r, outcome) ==
    /\ r \in requests
    /\ outcome \in generateInsight(r.imageBase64, r.type, r.inv)
    /\ requests' = requests \ {r}
    /\ insights' =
          IF outcome.settled = "resolved"
          THEN ResolveInsight(insights, r.id, outcome.value)
          ELSE RejectInsight(insights, r.id)
    /\ UNCHANGED <<file, currentSelection, apiKeyVerified, viewerVars,
                   pageVars, now, loads, keyCheck, keySelect, countVars>>

\* the Close button of an entry that InsightPanel shows
removeInsight(id) ==
    /\ apiKeyVerified
    /\ \E k \in DOMAIN insights : insights[k].id = id
    /\ insights' = FilterOut(insights, id)
    /\ UNCHANGED <<file, currentSelection, apiKeyVerified, viewerVars,
                   pageVars, envVars, countVars>>

\* the millisecond clock advances
Tick ==
    /\ now' = now + 1
    /\ UNCHANGED <<appVars, viewerVars, pageVars, requests, loads, keyCheck,
                   keySelect, countVars>>

(***************************************************************************)
(* The session with the gate open.  The browser delivers mouseleave to the *)
(* page the pointer leaves before any event of another page, so a page     *)
(* receives a mousedown only while no other page is in a drag.  The user   *)
(* chooses a file other than the current one, and not one that is still    *)
(* being parsed.                                                           *)
(***************************************************************************)
PointerFree(p) == \A q \in Pages \ {p} : ~isSelecting[q]

AllOutcomes ==
    UNION {generateInsight(r.imageBase64, r.type, r.inv) : r \in requests}
Ids == {insights[k].id : k \in DOMAIN insights}

NextFor(types, files) ==
    \/ \E f \in files \ (loads \cup {file}) : handleFileUpload(f)
    \/ \E f \in loads : loadPdfResolved(f)
    \/ \E f \in loads : loadPdfRejected(f)
    \/ \E p \in Pages, pt \in Points : PointerFree(p) /\ handleMouseDown(p, pt)
    \/ \E p \in Pages, pt \in Points : handleMouseMove(p, pt)
    \/ \E p \in Pages : handleMouseUp(p)
    \/ cancelSelection
    \/ \E type \in types :
          (currentSelection # Null => invocations < MaxActions)
          /\ handleAction(type)
    \/ \E r \in requests, outcome \in AllOutcomes : requestSettled(r, outcome)
    \/ \E id \in Ids : removeInsight(id)
    \/ now < MaxClock /\ Tick

Next == NextFor(ActionTypes, Files)

Spec == Init /\ [][Next]_vars

\* The session in which the user chooses the one-page file only.
OneFile == {2}
OneFileNext == NextFor(ActionTypes, OneFile)
OneFileSpec == Init /\ [][OneFileNext]_vars

\* the request of the n-th invocation settles
SettleOf(n) ==
    \E r \in requests, outcome \in AllOutcomes :
        r.inv = n /\ requestSettled(r, outcome)

\* The session in which every generation request eventually resolves or
\* rejects, with the actions of the text flow.
LiveTypes == {"Explain"}
LiveNext == NextFor(LiveTypes, Files)
LiveSpec ==
    Init /\ [][LiveNext]_vars /\ \A n \in 1..MaxActions : WF_vars(SettleOf(n))

(***************************************************************************)
(* The viewer alone: documents, pointer gestures and Cancel, without       *)
(* insight requests.                                                       *)
(***************************************************************************)
\* canvas coordinates that also give boxes large in one dimension only
GesturePoints == Points \cup {[x |-> 12, y |-> 5], [x |-> 5, y |-> 12]}

ViewerNextFor(files, points) ==
    \/ \E f \in files \ (loads \cup {file}) : handleFileUpload(f)
    \/ \E f \in loads : loadPdfResolved(f)
    \/ \E f \in loads : loadPdfRejected(f)
    \/ \E p \in Pages, pt \in points : PointerFree(p) /\ handleMouseDown(p, pt)
    \/ \E p \in Pages, pt \in points : handleMouseMove(p, pt)
    \/ \E p \in Pages : handleMouseUp(p)
    \/ cancelSelection

ViewerNext == ViewerNextFor(Files, GesturePoints)
ViewerSpec == Init /\ [][ViewerNext]_vars

\* The viewer of the one-page file with its zoom buttons.
ZoomNext ==
    \/ ViewerNextFor(OneFile, Points)
    \/ zoomIn
    \/ zoomOut
ZoomSpec == Init /\ [][ZoomNext]_vars

\* zoom steps away from the initial scale, in the session with requests
MaxZoomSteps == 1

\* The session over the one-page file with the text flow and the zoom
\* buttons.
ZoomFrameNext ==
    \/ NextFor(LiveTypes, OneFile)
    \/ scale < InitialScale + MaxZoomSteps /\ zoomIn
    \/ scale > InitialScale - MaxZoomSteps /\ zoomOut
ZoomFrameSpec == Init /\ [][ZoomFrameNext]_vars

(***************************************************************************)
(* The session from the mount of App.  Where window.aistudio exists, App   *)
(* mounts with the gate closed while checkApiKey awaits                    *)
(* hasSelectedApiKey(); where it does not, checkApiKey opens the gate in   *)
(* the mount effect (Init).                                                *)
(***************************************************************************)
GateInit ==
    \/ Init
    \/ /\ file = NoFile
       /\ insights = <<>>
       /\ currentSelection = Null
       /\ apiKeyVerified = FALSE
       /\ keyCheck = TRUE
       /\ keySelect = 0
       /\ pdfDoc = Null
       /\ scale = InitialScale
       /\ activeSelectionPage = NoPage
       /\ selectionBox = NoBoxes
       /\ isSelecting = NotSelecting
       /\ startPos = NoBoxes
       /\ now = 0
       /\ requests = {}
       /\ loads = {}
       /\ invocations = 0

GateNext ==
    \/ \E hasKey \in BOOLEAN : checkApiKey(hasKey)
    \/ handleApiKeySelection
    \/ openSelectKeyResolved
    \/ NextFor(LiveTypes, OneFile)
GateSpec == GateInit /\ [][GateNext]_vars

\* The session over both files with the actions of the text flow.
TextSpec == Init /\ [][LiveNext]_vars

(***************************************************************************)
(* Properties.                                                             *)
(***************************************************************************)
\* the entry of the n-th invocation is in the list
Listed(n) == \E k \in DOMAIN insights : insights[k].inv = n
\* the entry of the n-th invocation is in the list and pending
Pending(n) ==
    \E k \in DOMAIN insights : insights[k].inv = n /\ insights[k].isLoading
\* the requests that settle in a step
Settling == requests \ requests'
\* what generateInsight returns or handleAction stores for a failed call
ErrorContents == {"Error generating insight: request failed", FailedContent}

\* C1: every invocation of handleAction with a committed selection appends,
\* in the same step, exactly one entry with isLoading = true and content ""
\* to the end of the list and issues exactly one request, which carries the
\* image of that selection and the type of the entry; no other step adds an
\* entry or a request.
C1_OneEntryAndOneRequestPerInvocation ==
    [][/\ invocations' # invocations =>
            /\ invocations' = invocations + 1
            /\ currentSelection # Null
            /\ Len(insights') = Len(insights) + 1
            /\ SubSeq(insights', 1, Len(insights)) = insights
            /\ LET e == insights'[Len(insights')]
               IN  /\ e.isLoading
                   /\ e.content = ""
                   /\ e.type \in ActionTypes
                   /\ e.inv = invocations'
                   /\ \A k \in DOMAIN insights : insights[k].inv # e.inv
                   /\ requests' =
                         requests \cup
                            {[inv |-> e.inv, id |-> e.id, type |-> e.type,
                              imageBase64 |-> currentSelection[1].imageBase64]}
                   /\ Cardinality(requests') = Cardinality(requests) + 1
       /\ invocations' = invocations =>
            /\ requests' \subseteq requests
            /\ \A k \in DOMAIN insights' : Listed(insights'[k].inv)
            /\ Len(insights') <= Len(insights)]_vars

\* C1 witness: two invocations against one selection have created two pending
\* entries and two requests carrying its image.
C1_Witness ==
    /\ invocations = 2
    /\ Len(insights) = 2
    /\ insights[1].isLoading /\ insights[2].isLoading
    /\ Cardinality(requests) = 2
    /\ currentSelection # Null
    /\ \A r \in requests : r.imageBase64 = currentSelection[1].imageBase64

\* C2: the completion of a request changes only the entry created by the
\* same invocation; every other entry keeps its place, isLoading and content.
C2_CompletionTouchesOnlyItsOwnEntry ==
    [][\A r \in Settling :
          \A k \in DOMAIN insights :
              insights[k].inv # r.inv =>
                  /\ k \in DOMAIN insights'
                  /\ insights'[k] = insights[k]]_vars

\* C3: no two entries of the result list share an id.
C3_IdsAreUnique ==
    \A i, j \in DOMAIN insights : i # j => insights[i].id # insights[j].id

\* C4: once an entry has isLoading = false, its isLoading and content never
\* change again.
C4_TerminalIsFinal ==
    [][\A i \in DOMAIN insights, j \in DOMAIN insights' :
          (insights[i].inv = insights'[j].inv /\ ~insights[i].isLoading) =>
              /\ ~insights'[j].isLoading
              /\ insights'[j].content = insights[i].content]_vars

\* C5: where every request eventually settles, every entry that is in the
\* list and pending is eventually terminal or not in the list.
C5_NoEntryLoadsForever ==
    \A n \in 1..MaxActions : Pending(n) ~> ~Pending(n)

\* C5 witness: both entries of two invocations have become terminal.
C5_Witness ==
    /\ invocations = 2
    /\ Len(insights) = 2
    /\ ~insights[1].isLoading /\ ~insights[2].isLoading
    /\ requests = {}

\* C6: the completion of a request whose entry is not in the list (removed by
\* id, or cleared) leaves the list as it is.
C6_LateCompletionIsDropped ==
    [][\A r \in Settling : ~Listed(r.inv) => insights' = insights]_vars

\* C7: when a request fails (generateInsight catches the error of the
\* external call and returns its message, or the call rejects), the entry of
\* that invocation, if listed, becomes terminal with a non-empty error
\* message, and the other requests stay in flight.
C7_FailureBecomesTerminalEntry ==
    [][\A r \in Settling :
          \A outcome \in generateInsight(r.imageBase64, r.type, r.inv) :
              (/\ \/ outcome.settled = "rejected"
                  \/ outcome.value \in ErrorContents
               /\ requestSettled(r, outcome)) =>
                  /\ requests' = requests \ {r}
                  /\ Len(insights') = Len(insights)
                  /\ \A k \in DOMAIN insights' :
                        insights'[k].inv = r.inv =>
                            /\ ~insights'[k].isLoading
                            /\ insights'[k].content \in ErrorContents
                            /\ insights'[k].content # ""]_vars

\* C7 witness: the entry of a failed request shows the message of the catch
\* branch while another request is still in flight.
C7_Witness ==
    /\ Len(insights) = 2
    /\ insights[1].content = FailedContent
    /\ ~insights[1].isLoading
    /\ insights[2].isLoading
    /\ \E r \in requests : r.inv = insights[2].inv

\* C8: an action invocation and the completion of a request leave the
\* committed selection unchanged.
C8_ActionKeepsSelection ==
    [][(invocations' # invocations \/ requests' # requests) =>
          currentSelection' = currentSelection]_vars

\* C8 witness: two actions of different types were invoked against the
\* selection that is still committed, and one of them has completed.
C8_Witness ==
    /\ currentSelection # Null
    /\ Len(insights) = 2
    /\ insights[1].type # insights[2].type
    /\ ~insights[1].isLoading
    /\ \A r \in requests : r.imageBase64 = currentSelection[1].imageBase64
    /\ Cardinality(requests) = 1

\* C9: choosing a new file empties the result list and resets the committed
\* selection to none.
C9_UploadResets ==
    [][file' # file => (insights' = <<>> /\ currentSelection' = Null)]_vars

\* C9 witness: a new file has been chosen while the previous document is
\* still shown and a request is in flight; the list and the selection are
\* empty.
C9_Witness ==
    /\ pdfDoc # Null
    /\ file # pdfDoc[1].file
    /\ requests # {}
    /\ insights = <<>>
    /\ currentSelection = Null

\* C10: when a new document replaces the previous one, the active-selection
\* page marker is none and no page shows a selection box.
C10_NewDocumentClearsOverlay ==
    [][(pdfDoc # Null /\ pdfDoc' # pdfDoc) =>
          /\ activeSelectionPage' = NoPage
          /\ \A p \in Pages : selectionBox'[p] = Null]_vars

\* C11: when the parse of a newly chosen file fails, no document is held
\* afterwards, whatever the session held before.
C11_FailedParseLeavesNoDocument ==
    [][\A f \in loads : loadPdfRejected(f) => pdfDoc' = Null]_vars

\* the pages that show a selection box
BoxPages == {p \in Pages : selectionBox[p] # Null}

\* C12: at most one page shows a selection box; a pointer-down on a page
\* makes it the active selection page, gives it a box and leaves every other
\* page without one.
C12_AtMostOnePageShowsABox ==
    [][/\ Cardinality(BoxPages) <= 1
       /\ Cardinality(BoxPages') <= 1
       /\ \A p \in Pages, pt \in GesturePoints :
              handleMouseDown(p, pt) =>
                  /\ activeSelectionPage' = p
                  /\ BoxPages' = {p}]_vars

\* C12 witness: a selection was committed on page 1, whose box was visible,
\* and a pointer-down on page 2 has left page 2 as the only page with a box.
C12_Witness ==
    /\ currentSelection # Null
    /\ currentSelection[1].pageNumber = 1
    /\ activeSelectionPage = 2
    /\ BoxPages = {2}
    /\ isSelecting[2]

\* C13: a release (pointer-up or pointer-leave) of a drag whose box has
\* width < 10 or height < 10 leaves the committed selection as it was, clears
\* the box of the page and ends the drag.
C13_TinyDragIsDiscarded ==
    [][\A p \in Pages :
          (/\ isSelecting[p]
           /\ selectionBox[p] # Null
           /\ \/ selectionBox[p][1].width < MinSelectionSize
              \/ selectionBox[p][1].height < MinSelectionSize
           /\ handleMouseUp(p)) =>
              /\ currentSelection' = currentSelection
              /\ selectionBox'[p] = Null
              /\ ~isSelecting'[p]
              /\ startPos'[p] = Null]_vars

\* C13 witness: after a selection was committed on a page, a second drag on
\* that page was released tiny: the page shows no box, no drag is in
\* progress and the committed selection is still the first one.
C13_Witness ==
    /\ currentSelection # Null
    /\ LET p == currentSelection[1].pageNumber
       IN  /\ p \in MountedPages(pdfDoc)
           /\ pdfDoc[1].file = currentSelection[1].imageBase64[2].file
           /\ file = pdfDoc[1].file
           /\ activeSelectionPage = p
           /\ selectionBox[p] = Null
           /\ ~isSelecting[p]

\* the box with corners a and b: top-left corner and non-negative size
CornerBox(a, b) ==
    [x |-> Min(a.x, b.x), y |-> Min(a.y, b.y),
     width |-> Abs(b.x - a.x), height |-> Abs(b.y - a.y)]

\* C14: the box of a drag from the anchor to the current point has width
\* |dx|, height |dy| and the component-wise minimum of the two points as
\* (x, y), so a drag from P to Q and one from Q to P give the same box; a
\* pointer-move while no drag is in progress changes no box.
C14_BoxIsNormalised ==
    [][/\ \A a, b \in GesturePoints :
              /\ DragBox(a, b) = CornerBox(a, b)
              /\ DragBox(a, b).width >= 0
              /\ DragBox(a, b).height >= 0
              /\ DragBox(a, b) = DragBox(b, a)
       /\ \A p \in Pages, pt \in GesturePoints :
              handleMouseMove(p, pt) =>
                  IF isSelecting[p] /\ startPos[p] # Null
                  THEN selectionBox' =
                          [selectionBox EXCEPT
                              ![p] = <<CornerBox(startPos[p][1], pt)>>]
                  ELSE selectionBox' = selectionBox
       /\ \A p \in BoxPages' :
              selectionBox'[p][1].width >= 0 /\ selectionBox'[p][1].height >= 0
       /\ currentSelection' # Null =>
              /\ currentSelection'[1].rect.width >= 0
              /\ currentSelection'[1].rect.height >= 0]_vars

\* C14 witness: a drag up and to the left, from (12, 12) to (0, 0), shows the
\* box with corner (0, 0) and size 12 x 12.
C14_Witness ==
    \E p \in Pages :
        /\ isSelecting[p]
        /\ startPos[p] = <<[x |-> 12, y |-> 12]>>
        /\ selectionBox[p] = <<[x |-> 0, y |-> 0, width |-> 12, height |-> 12]>>

\* C15: a gesture emits at most one SelectionData.  A release ends the drag
\* of its page; a release on a page with no drag in progress emits nothing
\* and changes no box; a SelectionData is emitted only by the release of a
\* drag, carries the number of that page and the box it shows at the
\* release, and leaves the boxes as they are; a drag starts only at a
\* pointer-down.
C15_GestureEmitsAtMostOnce ==
    [][/\ \A p \in Pages :
              handleMouseUp(p) =>
                  /\ ~isSelecting'[p]
                  /\ ~isSelecting[p] =>
                         /\ selectionBox' = selectionBox
                         /\ currentSelection' = currentSelection
       /\ (currentSelection' # currentSelection /\ currentSelection' # Null) =>
              LET data == currentSelection'[1]
              IN  /\ data.pageNumber \in MountedPages(pdfDoc)
                  /\ isSelecting[data.pageNumber]
                  /\ ~isSelecting'[data.pageNumber]
                  /\ selectionBox[data.pageNumber] = <<data.rect>>
                  /\ selectionBox' = selectionBox
       /\ \A p \in Pages :
              (~isSelecting[p] /\ isSelecting'[p]) =>
                  \E pt \in GesturePoints : handleMouseDown(p, pt)]_vars

\* C15 witness: the release of a drag on page 2 has emitted the selection
\* that is committed: it names page 2 and the box page 2 shows, and the drag
\* has ended.
C15_Witness ==
    /\ currentSelection # Null
    /\ currentSelection[1].pageNumber = 2
    /\ selectionBox[2] = <<currentSelection[1].rect>>
    /\ ~isSelecting[2]
    /\ startPos[2] = Null
    /\ activeSelectionPage = 2

\* C16: the zoom scale starts at 120% and always lies within [50%, 300%];
\* zoom-in adds 10% and zoom-out subtracts 10%, each saturating at the
\* bound, and nothing else changes the scale.
C16_ScaleStaysInRange ==
    /\ scale = 12
    /\ [][/\ scale \in 5..30
          /\ scale' \in 5..30
          /\ zoomIn => scale' = (IF scale + 1 > 30 THEN 30 ELSE scale + 1)
          /\ zoomOut => scale' = (IF scale - 1 < 5 THEN 5 ELSE scale - 1)
          /\ scale' # scale => (zoomIn \/ zoomOut)]_vars

\* C16 witness: the scale is at its lower bound while the committed
\* selection was captured at the upper bound.
C16_Witness ==
    /\ scale = MinScale
    /\ currentSelection # Null
    /\ currentSelection[1].imageBase64[2].scale = MaxScale

\* C17: a change of the zoom scale leaves the committed selection (its page
\* number, rect and image), the result list and the requests in flight as
\* they are.
C17_ZoomKeepsSelection ==
    [][scale' # scale =>
          /\ currentSelection' = currentSelection
          /\ insights' = insights
          /\ requests' = requests]_vars

\* C17 witness: the scale differs from the one the committed selection was
\* captured at, while an entry created from that selection is listed and its
\* request is in flight.
C17_Witness ==
    /\ currentSelection # Null
    /\ currentSelection[1].imageBase64[2].scale # scale
    /\ insights # <<>>
    /\ \E r \in requests : r.imageBase64 = currentSelection[1].imageBase64

\* C18, after a commit and after an action invocation: the boxes stay as
\* they are.
C18_OverlayPersists ==
    [][((currentSelection' # currentSelection /\ currentSelection' # Null)
           \/ invocations' # invocations) =>
          selectionBox' = selectionBox]_vars

\* C18: the overlay of a committed selection is cleared neither by the
\* commit nor by an action invocation, and after the user cancels the
\* committed selection no page shows its box.
C18_OverlayClearedOnCancel ==
    [][/\ ((currentSelection' # currentSelection /\ currentSelection' # Null)
              \/ invocations' # invocations) =>
              selectionBox' = selectionBox
       /\ (currentSelection # Null /\ cancelSelection) =>
              selectionBox'[currentSelection[1].pageNumber]
                  # <<currentSelection[1].rect>>]_vars

\* C19, amended: while apiKeyVerified is false no file is chosen, no
\* selection committed, no action invoked, no request issued, no entry
\* removed and no document shown, and the gate opens only when the
\* credential check reports a selected key or the key selection completes;
\* where the host page has no key API the gate is open from the mount.
C19_ClosedGateBlocksCore ==
    [][~apiKeyVerified =>
          /\ file' = file
          /\ currentSelection' = currentSelection
          /\ invocations' = invocations
          /\ requests' \subseteq requests
          /\ Len(insights') = Len(insights)
          /\ pdfDoc = Null /\ pdfDoc' = Null
          /\ UNCHANGED <<scale, activeSelectionPage, pageVars>>
          /\ apiKeyVerified' => (checkApiKey(TRUE) \/ openSelectKeyResolved)]_vars

\* C19 witness: the gate, opened by the key selection, was closed again by
\* the credential check that reported no key, after a file was chosen and
\* while a request is in flight.
C19_Witness ==
    /\ ~apiKeyVerified
    /\ ~keyCheck
    /\ file # NoFile
    /\ requests # {}

\* C19: the gate is closed when the session starts, nothing of the core is
\* reachable while it is closed, and it opens only after the credential
\* check reports a selected key or the key selection completes.
C19_GateOpensOnlyOnCredential ==
    /\ ~apiKeyVerified
    /\ [][~apiKeyVerified =>
              /\ file' = file
              /\ currentSelection' = currentSelection
              /\ invocations' = invocations
              /\ requests' \subseteq requests
              /\ apiKeyVerified' =>
                     (checkApiKey(TRUE) \/ openSelectKeyResolved)]_vars

\* C20: a new entry is added after all existing ones; a completion keeps
\* every entry at its place; a removal deletes the entries with the given id
\* and no other; entries that survive a step keep their relative order; the
\* panel shows the list most recent first.
C20_ListKeepsOrder ==
    [][/\ invocations' # invocations =>
              /\ Len(insights') = Len(insights) + 1
              /\ SubSeq(insights', 1, Len(insights)) = insights
              /\ insights'[Len(insights')].inv = invocations'
       /\ \A r \in Settling :
              /\ Len(insights') = Len(insights)
              /\ \A k \in DOMAIN insights :
                     /\ insights'[k].inv = insights[k].inv
                     /\ insights'[k].id = insights[k].id
                     /\ insights'[k].type = insights[k].type
                     /\ insights'[k].timestamp = insights[k].timestamp
       /\ \A id \in Ids :
              removeInsight(id) =>
                  /\ \A k \in DOMAIN insights' : insights'[k].id # id
                  /\ \A k \in DOMAIN insights :
                         insights[k].id # id =>
                             \E j \in DOMAIN insights' :
                                 insights'[j] = insights[k]
       /\ \A i, j \in DOMAIN insights' :
              i < j =>
                  \A a, b \in DOMAIN insights :
                      (/\ insights[a].inv = insights'[i].inv
                       /\ insights[b].inv = insights'[j].inv) => a < b
       /\ \A i, j \in DOMAIN insights' :
              i < j => insights'[i].inv < insights'[j].inv
       /\ \A i, j \in DOMAIN Reversed(insights') :
              i < j => Reversed(insights')[i].inv > Reversed(insights')[j].inv
       /\ Len(Reversed(insights')) = Len(insights')]_vars

\* C20 witness: the entry of the second invocation has completed in place
\* behind the pending entry of the first, and the panel shows it first.
C20_Witness ==
    /\ Len(insights) = 2
    /\ insights[1].inv = 1 /\ insights[1].isLoading
    /\ insights[2].inv = 2 /\ ~insights[2].isLoading
    /\ insights[1].id # insights[2].id
    /\ Reversed(insights)[1] = insights[2]

\* C21: the completion of the load of a file that is not the most recently
\* chosen one leaves the document that is held as it is, so the document
\* finally held is that of the most recently chosen file.
C21_StaleLoadIsDropped ==
    [][\A f \in loads \ {file} : loadPdfResolved(f) => pdfDoc' = pdfDoc]_vars

\* C22: when the document of the most recently chosen file finishes loading,
\* the result list holds no entry and the committed selection is none: what
\* was selected or requested before that moment came from an earlier
\* document.
C22_NothingSurvivesTheSwap ==
    [][\A f \in loads :
          (f = file /\ loadPdfResolved(f)) =>
              /\ insights' = <<>>
              /\ currentSelection' = Null]_vars

\* C23: with no committed selection, an action invocation changes nothing,
\* and no step adds an entry to the list or issues a request.
C23_ActionWithoutSelectionIsNoOp ==
    [][currentSelection = Null =>
          /\ \A type \in ActionTypes : handleAction(type) => UNCHANGED vars
          /\ invocations' = invocations
          /\ requests' \subseteq requests
          /\ Len(insights') <= Len(insights)
          /\ \A k \in DOMAIN insights' : Listed(insights'[k].inv)]_vars

\* C23 witness: no selection is committed (the one an entry was created
\* from has been cancelled) while the action menu's handler can be invoked:
\* the entry and its request in flight are all there is.
C23_Witness ==
    /\ apiKeyVerified
    /\ pdfDoc # Null
    /\ currentSelection = Null
    /\ invocations = 1
    /\ Len(insights) = 1
    /\ Cardinality(requests) = 1
    /\ ENABLED handleAction("Explain")

\* C24: a request carries the image of the selection committed when it was
\* invoked and the id of the entry created then; no later step (a new
\* commit, a cancel, a new document) changes a request in flight, and a
\* request leaves only by completing, which changes entries with its id
\* only and makes the entry of its invocation, if listed, terminal.
C24_RequestKeepsItsImage ==
    [][/\ \A r \in requests' \ requests :
              /\ currentSelection # Null
              /\ r.imageBase64 = currentSelection[1].imageBase64
              /\ r.inv = invocations'
              /\ \E k \in DOMAIN insights' :
                     insights'[k].inv = r.inv /\ insights'[k].id = r.id
       /\ \A r \in requests :
              \/ r \in requests'
              \/ /\ \A r2 \in requests' : r2.inv # r.inv
                 /\ Len(insights') = Len(insights)
                 /\ \A k \in DOMAIN insights :
                        /\ insights'[k] # insights[k] => insights[k].id = r.id
                        /\ insights[k].inv = r.inv => ~insights'[k].isLoading]_vars

\* C24 witness: a request created from a selection on one document is in
\* flight and its entry is listed, while another document is shown and a
\* selection on it is committed.
C24_Witness ==
    \E r \in requests :
        /\ Listed(r.inv)
        /\ pdfDoc # Null
        /\ pdfDoc[1].file # r.imageBase64[2].file
        /\ currentSelection # Null
        /\ currentSelection[1].imageBase64[2].file = pdfDoc[1].file

\* C25: while no drag is in progress, the page a committed selection names
\* shows a box equal to the committed rect.
C25_SelectionMatchesOverlay ==
    (\A p \in Pages : ~isSelecting[p]) =>
        (currentSelection # Null =>
            selectionBox[currentSelection[1].pageNumber]
                = <<currentSelection[1].rect>>)

=============================================================================
